---- MODULE Spec2Model ----
(***************************************************************************)
(* Model of freya's node state reducers (state/src/node.rs): the attribute *)
(* parsers, the six per-category reducers (References, FontStyle, Size,    *)
(* Scroll, Style, CursorSettings) and the dirty-context lock protocol.     *)
(*                                                                         *)
(* Text is a sequence of one-character strings, so that the parsers work   *)
(* on characters as the Rust code does.  An f32 is [k |-> "nan"],          *)
(* [k |-> "inf", neg |-> b] or [k |-> "fin", n |-> n, e |-> e], the exact  *)
(* decimal n / 10^e in lowest form; f32 rounding and the sign of zero are  *)
(* not modelled, NaN and the infinities are.                               *)
(***************************************************************************)
EXTENDS Integers, Sequences, FiniteSets, TLC

\* Spec follows one node through the reduce calls of one category: st is its
\* NodeState, call the record of the last call.  SpecLock runs Size and Scroll
\* reduce statement by statement beside the layout stage: pc and pend are the
\* call in progress, lock and dirty the mutex and the dirty marks behind it, lpc
\* and obs the layout stage.  SpecTree reduces CursorSettings over a tree:
\* tattrs and tstate are the nodes' attributes and resolved states, todo the
\* nodes the pass has yet to visit, tfailed whether a call has panicked.
VARIABLES st, call, pc, pend, lock, dirty, lpc, obs, tattrs, tstate, todo, tfailed

vars == <<st, call, pc, pend, lock, dirty, lpc, obs, tattrs, tstate, todo, tfailed>>

\* ------------------------------------------------------------ options
None == [k |-> "none"]

Some(x) == [k |-> "some", v |-> x]

IsSome(o) == o.k = "some"

\* ------------------------------------------------------------ text
Digits == <<"0", "1", "2", "3", "4", "5", "6", "7", "8", "9">>

IsDigit(c) == \E i \in 1..10 : Digits[i] = c

DigitVal(c) == (CHOOSE i \in 1..10 : Digits[i] = c) - 1

IsSpace(c) == c = " "

Drop(s, n) == SubSeq(s, n + 1, Len(s))

Take(s, n) == SubSeq(s, 1, n)

\* str::starts_with
StartsWith(s, p) == Len(p) <= Len(s) /\ Take(s, Len(p)) = p

\* str::ends_with
EndsWith(s, p) == Len(p) <= Len(s) /\ Drop(s, Len(s) - Len(p)) = p

\* str::contains
Contains(s, p) == \E i \in 0..(Len(s) - Len(p)) : SubSeq(s, i + 1, i + Len(p)) = p

RECURSIVE Remove(_, _)
\* str::replace(p, ""): every non-overlapping match of p, left to right, is dropped
Remove(s, p) ==
    IF s = <<>> THEN <<>>
    ELSE IF StartsWith(s, p) THEN Remove(Drop(s, Len(p)), p)
    ELSE <<s[1]>> \o Remove(Drop(s, 1), p)

\* str::strip_prefix
StripPrefix(s, p) == IF StartsWith(s, p) THEN Some(Drop(s, Len(p))) ELSE None

\* str::strip_suffix
StripSuffix(s, p) == IF EndsWith(s, p) THEN Some(Take(s, Len(s) - Len(p))) ELSE None

RECURSIVE TrimStart(_)
TrimStart(s) == IF s # <<>> /\ IsSpace(s[1]) THEN TrimStart(Drop(s, 1)) ELSE s

RECURSIVE TrimEnd(_)
TrimEnd(s) == IF s # <<>> /\ IsSpace(s[Len(s)]) THEN TrimEnd(Take(s, Len(s) - 1)) ELSE s

\* str::trim
Trim(s) == TrimEnd(TrimStart(s))

RECURSIVE SplitOn(_, _, _)
\* str::split(c): the pieces between the occurrences of c, empty pieces kept
SplitOn(s, c, cur) ==
    IF s = <<>> THEN <<cur>>
    ELSE IF s[1] = c THEN <<cur>> \o SplitOn(Drop(s, 1), c, <<>>)
    ELSE SplitOn(Drop(s, 1), c, Append(cur, s[1]))

Split(s, c) == SplitOn(s, c, <<>>)

\* str::split_whitespace and split_ascii_whitespace: the non-empty pieces
SplitWhitespace(s) == SelectSeq(Split(s, " "), LAMBDA t : t # <<>>)

\* str::to_ascii_lowercase on the letters the special float names use
Lower(c) ==
    CASE c = "N" -> "n" [] c = "A" -> "a" [] c = "I" -> "i" [] c = "F" -> "f"
      [] c = "T" -> "t" [] c = "Y" -> "y" [] OTHER -> c

LowerAll(s) == [i \in 1..Len(s) |-> Lower(s[i])]

\* ------------------------------------------------------------ numbers
RECURSIVE DigitsVal(_, _)
DigitsVal(s, acc) == IF s = <<>> THEN acc ELSE DigitsVal(Drop(s, 1), acc * 10 + DigitVal(s[1]))

AllDigits(s) == \A i \in 1..Len(s) : IsDigit(s[i])

\* <integer>::from_str: an optional sign ("-" only for a signed type), then one
\* or more digits; a value outside lo..hi is an error
ParseInt(s, lo, hi) ==
    LET neg  == s # <<>> /\ s[1] = "-" /\ lo < 0
        sign == s # <<>> /\ (s[1] = "+" \/ neg)
        body == IF sign THEN Drop(s, 1) ELSE s
        v    == IF neg THEN 0 - DigitsVal(body, 0) ELSE DigitsVal(body, 0)
    IN  IF body = <<>> \/ ~AllDigits(body) THEN None
        ELSE IF v < lo \/ v > hi THEN None
        ELSE Some(v)

ParseU8(s) == ParseInt(s, 0, 255)

ParseI16(s) == ParseInt(s, -32768, 32767)

ParseI32(s) == ParseInt(s, 0 - 2147483647 - 1, 2147483647)

\* usize is 64 bits wide; the texts of the model have fewer than ten digits, so
\* its upper limit is never met and the largest integer TLC holds stands for it
ParseUsize(s) == ParseInt(s, 0, 2147483647)

NaN == [k |-> "nan"]

Inf(neg) == [k |-> "inf", neg |-> neg]

RECURSIVE Norm(_, _)
\* the decimal n / 10^e in lowest form
Norm(n, e) == IF e > 0 /\ n % 10 = 0 THEN Norm(n \div 10, e - 1) ELSE [k |-> "fin", n |-> n, e |-> e]

Fin(n) == Norm(n, 0)

\* f32::from_str: an optional sign, then inf, infinity or nan in any case, or
\* digits with an optional fraction point, at least one digit in all
ParseF32(s) ==
    LET neg  == s # <<>> /\ s[1] = "-"
        sign == s # <<>> /\ (s[1] = "+" \/ neg)
        body == IF sign THEN Drop(s, 1) ELSE s
        low  == LowerAll(body)
        dot  == IF \E i \in 1..Len(body) : body[i] = "."
                THEN CHOOSE i \in 1..Len(body) : body[i] = "." /\ \A j \in 1..(i - 1) : body[j] # "."
                ELSE Len(body) + 1
        ip   == Take(body, dot - 1)
        fp   == Drop(body, dot)
        m    == DigitsVal(ip \o fp, 0)
    IN  IF low = <<"n", "a", "n">> THEN Some(NaN)
        ELSE IF low = <<"i", "n", "f">> \/ low = <<"i", "n", "f", "i", "n", "i", "t", "y">> THEN Some(Inf(neg))
        ELSE IF ~AllDigits(ip) \/ ~AllDigits(fp) \/ ip \o fp = <<>> THEN None
        ELSE Some(Norm(IF neg THEN 0 - m ELSE m, Len(fp)))

\* f32 == f32: NaN equals nothing, itself included
FEq(a, b) == a.k # "nan" /\ b.k # "nan" /\ a = b

\* f32 / 2.0
Half(x) ==
    IF x.k # "fin" THEN x
    ELSE IF x.n % 2 = 0 THEN Norm(x.n \div 2, x.e)
    ELSE Norm(x.n * 5, x.e + 1)

\* ------------------------------------------------------------ value types
\* skia_safe::Color as its four channels
ARGB(a, r, g, b) == [a |-> a, r |-> r, g |-> g, b |-> b]

\* Color::from_rgb
from_rgb(r, g, b) == ARGB(255, r, g, b)

RED == from_rgb(255, 0, 0)

GREEN == from_rgb(0, 255, 0)

BLUE == from_rgb(0, 0, 255)

YELLOW == from_rgb(255, 255, 0)

BLACK == from_rgb(0, 0, 0)

GRAY == from_rgb(136, 136, 136)

WHITE == from_rgb(255, 255, 255)

TRANSPARENT == ARGB(0, 0, 0, 0)

Auto == [k |-> "Auto"]

Percentage(f) == [k |-> "Percentage", v |-> f]

Manual(f) == [k |-> "Manual", v |-> f]

Calculation(cs) == [k |-> "Calculation", v |-> cs]

Op(name) == [k |-> name]

\* derive(PartialEq) for CalcType
CalcTypeEq(a, b) ==
    /\ a.k = b.k
    /\ (a.k \in {"Percentage", "Manual"} => FEq(a.v, b.v))

\* derive(PartialEq) for SizeMode
SizeModeEq(a, b) ==
    /\ a.k = b.k
    /\ (a.k \in {"Percentage", "Manual"} => FEq(a.v, b.v))
    /\ (a.k = "Calculation" =>
            /\ Len(a.v) = Len(b.v)
            /\ \A i \in 1..Len(a.v) : CalcTypeEq(a.v[i], b.v[i]))

\* ------------------------------------------------------------ parsers
T_rgb == <<"r", "g", "b", "(">>

T_calc == <<"c", "a", "l", "c">>

T_calcOpen == <<"c", "a", "l", "c", "(">>

T_none == <<"n", "o", "n", "e">>

T_auto == <<"a", "u", "t", "o">>

T_stretch == <<"s", "t", "r", "e", "t", "c", "h">>

T_center == <<"c", "e", "n", "t", "e", "r">>

T_horizontal == <<"h", "o", "r", "i", "z", "o", "n", "t", "a", "l">>

T_both == <<"b", "o", "t", "h">>

T_editable == <<"e", "d", "i", "t", "a", "b", "l", "e">>

T_italic == <<"i", "t", "a", "l", "i", "c">>

T_bold == <<"b", "o", "l", "d">>

T_end == <<"e", "n", "d">>

T_justify == <<"j", "u", "s", "t", "i", "f", "y">>

T_left == <<"l", "e", "f", "t">>

T_right == <<"r", "i", "g", "h", "t">>

T_start == <<"s", "t", "a", "r", "t">>

parse_display(value) == IF value = T_center THEN "Center" ELSE "Normal"

\* `next()?.trim().parse().ok()?` on each of the first three components
rgb_components(colors) ==
    [i \in 1..3 |-> IF i <= Len(colors) THEN ParseU8(Trim(colors[i])) ELSE None]

rgb_color(c) ==
    IF IsSome(c[1]) /\ IsSome(c[2]) /\ IsSome(c[3])
    THEN Some(from_rgb(c[1].v, c[2].v, c[3].v))
    ELSE None

parse_rgb(color) ==
    rgb_color(rgb_components(Split(Remove(Remove(color, T_rgb), <<")">>), ",")))

parse_color(color) ==
    CASE color = <<"r", "e", "d">> -> Some(RED)
      [] color = <<"g", "r", "e", "e", "n">> -> Some(GREEN)
      [] color = <<"b", "l", "u", "e">> -> Some(BLUE)
      [] color = <<"y", "e", "l", "l", "o", "w">> -> Some(YELLOW)
      [] color = <<"b", "l", "a", "c", "k">> -> Some(BLACK)
      [] color = <<"g", "r", "a", "y">> -> Some(GRAY)
      [] color = <<"w", "h", "i", "t", "e">> -> Some(WHITE)
      [] OTHER -> parse_rgb(color)

\* the f32 fields of a shadow: tokens 1 (x), 2 (y) and 4 (size)
shadow_floats(sv) == [i \in {1, 2, 4} |-> IF i <= Len(sv) THEN ParseF32(sv[i]) ELSE None]

shadow_intensity(sv) == IF Len(sv) >= 3 THEN ParseU8(sv[3]) ELSE None

shadow_color(sv) == IF Len(sv) >= 5 THEN parse_color(sv[5]) ELSE None

ShadowSettings(f, it, co) ==
    IF IsSome(f[1]) /\ IsSome(f[2]) /\ IsSome(it) /\ IsSome(f[4]) /\ IsSome(co)
    THEN Some([x |-> f[1].v, y |-> f[2].v, intensity |-> it.v, size |-> f[4].v, color |-> co.v])
    ELSE None

shadow_of(sv) == ShadowSettings(shadow_floats(sv), shadow_intensity(sv), shadow_color(sv))

parse_shadow(value) == shadow_of(SplitWhitespace(value))

parse_text_align(align) ==
    CASE align = T_center -> "Center"
      [] align = T_end -> "End"
      [] align = T_justify -> "Justify"
      [] align = T_left -> "Left"
      [] align = T_right -> "Right"
      [] align = T_start -> "Start"
      [] OTHER -> "Left"

\* `Variant(x.ok()?)`: the variant of a parsed value, None where `?` returns
Wrap(kind, parsed) == IF IsSome(parsed) THEN Some([k |-> kind, v |-> parsed.v]) ELSE None

\* one token of parse_calc's loop: the CalcType pushed, or None where `?` returns
calc_token(val) ==
    IF Contains(val, <<"%">>) THEN Wrap("Percentage", ParseF32(Remove(val, <<"%">>)))
    ELSE IF val = <<"+">> THEN Some(Op("Add"))
    ELSE IF val = <<"-">> THEN Some(Op("Sub"))
    ELSE IF val = <<"/">> THEN Some(Op("Div"))
    ELSE IF val = <<"*">> THEN Some(Op("Mul"))
    ELSE Wrap("Manual", ParseF32(val))

\* the slip of dropping a token that fails instead of failing the parse
calc_tokensPartial(toks) ==
    Some(SelectSeq([i \in 1..Len(toks) |-> IF IsSome(toks[i]) THEN toks[i].v ELSE None],
                   LAMBDA t : t # None))

\* the loop over the tokens: all of them pushed, or None at the first that fails
calc_tokens(toks) ==
    IF \E i \in 1..Len(toks) : ~IsSome(toks[i]) THEN None
    ELSE Some([i \in 1..Len(toks) |-> toks[i].v])

calc_body(vals) == calc_tokens([i \in 1..Len(vals) |-> calc_token(vals[i])])

\* `size.strip_suffix(')')?` and the split of what is left
calc_inner(stripped) ==
    IF ~IsSome(stripped) THEN None
    ELSE IF ~EndsWith(stripped.v, <<")">>) THEN None
    ELSE calc_body(SplitWhitespace(StripSuffix(stripped.v, <<")">>).v))

parse_calc(size) == calc_inner(StripPrefix(size, T_calcOpen))

\* the second `contains("calc")` arm of the source (line 711) repeats the test of
\* the first and is never taken
parse_size(size) ==
    IF size = T_stretch THEN Some(Percentage(Fin(100)))
    ELSE IF size = T_auto THEN Some(Auto)
    ELSE IF Contains(size, T_calc) THEN Wrap("Calculation", parse_calc(size))
    ELSE IF Contains(size, <<"%">>) THEN Wrap("Percentage", ParseF32(Remove(size, <<"%">>)))
    ELSE Wrap("Manual", ParseF32(size))

parse_cursor(cursor) == IF cursor = T_editable THEN "Editable" ELSE "None"

parse_font_style(style) ==
    CASE style = T_italic -> "italic"
      [] style = T_bold -> "bold"
      [] style = T_bold \o <<"-">> \o T_italic -> "bold_italic"
      [] OTHER -> "default"

\* ------------------------------------------------------------ node views
\* An attribute is [name, value]; a value is text, bytes or a type-erased handle
Text(t) == [k |-> "text", v |-> t]

Bytes(b) == [k |-> "bytes", v |-> b]

AnyVal(ty, h) == [k |-> "any", ty |-> ty, h |-> h]

Attr(name, value) == [name |-> name, value |-> value]

\* AttributeValue::to_string of a text value is the text
to_string(value) == value.v

\* AttributeValue::as_text
as_text(value) == IF value.k = "text" THEN Some(value.v) ELSE None

\* AttributeValue::as_bytes
as_bytes(value) == IF value.k = "bytes" THEN Some(value.v) ELSE None

\* NodeView::attributes: the node's attributes whose names are in the reducer's mask
attributes(node, mask) == SelectSeq(node.attrs, LAMBDA a : a.name \in mask)

RECURSIVE Fold(_, _, _)
\* `for a in node.attributes() { ... }`: a panic in the body ends the loop
Fold(step(_, _), attrs, acc) ==
    IF attrs = <<>> \/ acc.panic THEN acc
    ELSE Fold(step, Tail(attrs), step(acc, Head(attrs)))

\* `.unwrap()` on None or Err
Panic(acc) == [acc EXCEPT !.panic = TRUE]

\* the slip of unwrapping a guarded parse
SetSomeUnguarded(acc, field, parsed) ==
    IF IsSome(parsed) THEN [acc EXCEPT ![field] = parsed.v] ELSE Panic(acc)

\* `if let Some(x) = parsed { field = x; }`
SetSome(acc, field, parsed) == IF IsSome(parsed) THEN [acc EXCEPT ![field] = parsed.v] ELSE acc

\* `if let Ok(x) = parsed { field = Some(x); }`
SetSomeSome(acc, field, parsed) ==
    IF IsSome(parsed) THEN [acc EXCEPT ![field] = Some(parsed.v)] ELSE acc

\* the slip of guarding the parse: a failed parse keeps the field
SetUnwrapOrKeep(acc, field, parsed) == SetSome(acc, field, parsed)

\* `field = parsed.unwrap()`
SetUnwrap(acc, field, parsed) == IF IsSome(parsed) THEN [acc EXCEPT ![field] = parsed.v] ELSE Panic(acc)

\* the fields of a loop's locals that make up the category's record
Fields(r, default) == [f \in DOMAIN default |-> r[f]]

\* what a reduce call hands back: how it ended, the state it leaves in *self,
\* its return value and the identities it passed to mark_as_dirty
Result(outcome, new, changed, marks) ==
    [outcome |-> outcome, new |-> new, changed |-> changed, marks |-> marks]

\* a call that panicked: *self is as it was, nothing is returned
Panicked(self) == Result("panic", self, FALSE, <<>>)

\* ------------------------------------------------------------ References
ReferencesDefault == [node_ref |-> None, cursor_ref |-> None]

ReferencesMask == {"reference", "cursor_reference"}

\* `v.value.downcast_ref().unwrap()` for a handle of type ty
Downcast(acc, field, value, ty) ==
    IF value.k # "any" THEN acc
    ELSE IF value.ty # ty THEN Panic(acc)
    ELSE [acc EXCEPT ![field] = Some(value.h)]

ReferencesStep(acc, a) ==
    CASE a.name = "reference" -> Downcast(acc, "node_ref", a.value, "NodeRef")
      [] a.name = "cursor_reference" -> Downcast(acc, "cursor_ref", a.value, "CursorRef")
      [] OTHER -> acc

ReferencesResolve(node, parent) ==
    Fold(ReferencesStep, attributes(node, ReferencesMask),
         [node_ref |-> None,
          cursor_ref |-> IF IsSome(parent) THEN parent.v.cursor_ref ELSE None,
          panic |-> FALSE])

\* the slip of comparing the new record with the old one
ReferencesChangedCompared(new, self) == new # self

\* `let changed = false;`
ReferencesChanged(new, self) == FALSE

ReferencesFinish(self, r) ==
    IF r.panic THEN Panicked(self)
    ELSE Result("ok", Fields(r, ReferencesDefault),
                ReferencesChanged(Fields(r, ReferencesDefault), self), <<>>)

ReferencesReduce(self, node, parent) == ReferencesFinish(self, ReferencesResolve(node, parent))

\* ------------------------------------------------------------ FontStyle
FontStyleDefault ==
    [color |-> WHITE,
     font_family |-> <<"F", "i", "r", "a", " ", "S", "a", "n", "s">>,
     font_size |-> Fin(16),
     line_height |-> Norm(12, 1),
     align |-> "Left",
     max_lines |-> None,
     font_style |-> "default"]

FontStyleMask ==
    {"color", "font_size", "font_family", "line_height", "align", "max_lines", "font_style"}

\* derive(PartialEq) for FontStyle
FontStyleEq(a, b) ==
    /\ a.color = b.color
    /\ a.font_family = b.font_family
    /\ FEq(a.font_size, b.font_size)
    /\ FEq(a.line_height, b.line_height)
    /\ a.align = b.align
    /\ a.max_lines = b.max_lines
    /\ a.font_style = b.font_style

FontStyleStep(acc, attr) ==
    CASE attr.name = "color" -> SetSome(acc, "color", parse_color(to_string(attr.value)))
      [] attr.name = "font_family" -> [acc EXCEPT !.font_family = to_string(attr.value)]
      [] attr.name \in {"font_size", "line_height"} ->
            SetSome(acc, attr.name, ParseF32(to_string(attr.value)))
      [] attr.name = "align" -> [acc EXCEPT !.align = parse_text_align(to_string(attr.value))]
      [] attr.name = "max_lines" -> SetSomeSome(acc, "max_lines", ParseUsize(to_string(attr.value)))
      [] attr.name = "font_style" ->
            [acc EXCEPT !.font_style = parse_font_style(to_string(attr.value))]
      [] OTHER -> acc

\* the slip of starting every node from the type default
FontStyleBaseDefault(parent) == FontStyleDefault

\* parent.cloned().unwrap_or_default()
FontStyleBase(parent) == IF IsSome(parent) THEN parent.v ELSE FontStyleDefault

FontStyleResolve(node, parent) ==
    Fold(FontStyleStep, attributes(node, FontStyleMask),
         FontStyleBase(parent) @@ [panic |-> FALSE])

\* the slip of a flag that never reports a change
FontStyleChangedNever(new, self) == FALSE

\* `&font_style != self`
FontStyleChanged(new, self) == ~FontStyleEq(new, self)

FontStyleFinish(self, r) ==
    Result("ok", Fields(r, FontStyleDefault),
           FontStyleChanged(Fields(r, FontStyleDefault), self), <<>>)

FontStyleReduce(self, node, parent) == FontStyleFinish(self, FontStyleResolve(node, parent))

\* ------------------------------------------------------------ Size
Zero == Fin(0)

SizeDefault ==
    [width |-> Auto, height |-> Auto, min_height |-> Auto, min_width |-> Auto,
     padding |-> <<Zero, Zero, Zero, Zero>>, direction |-> "Vertical", id |-> 0]

SizeMask == {"width", "height", "min_height", "min_width", "padding", "direction"}

\* the direction a node starts from: Both for the text-bearing kinds
SizeDirection(node) ==
    IF node.tag = "label" THEN "Both"
    ELSE IF node.tag = "paragraph" THEN "Both"
    ELSE IF node.tag = "text" THEN "Both"
    ELSE IF node.text THEN "Both"
    ELSE "Vertical"

\* the slip of halving the total twice
PaddingOfHalvedTwice(total_padding) ==
    IF IsSome(total_padding)
    THEN Some(<<Half(Half(total_padding.v)), Half(Half(total_padding.v)),
                Half(Half(total_padding.v)), Half(Half(total_padding.v))>>)
    ELSE None

\* the four sides set from `total_padding / 2.0`
PaddingOf(total_padding) ==
    IF IsSome(total_padding)
    THEN Some(<<Half(total_padding.v), Half(total_padding.v),
                Half(total_padding.v), Half(total_padding.v)>>)
    ELSE None

\* the slip of taking every value but "horizontal" for "both"
parse_directionKnownOnly(attr) ==
    IF attr = T_horizontal THEN "Horizontal" ELSE "Both"

parse_direction(attr) ==
    IF attr = T_horizontal THEN "Horizontal"
    ELSE IF attr = T_both THEN "Both"
    ELSE "Vertical"

SizeStep(acc, a) ==
    CASE a.name \in {"width", "height", "min_height", "min_width"} ->
            SetSome(acc, a.name, parse_size(to_string(a.value)))
      [] a.name = "padding" -> SetUnwrap(acc, "padding", PaddingOf(ParseF32(to_string(a.value))))
      [] a.name = "direction" -> [acc EXCEPT !.direction = parse_direction(to_string(a.value))]
      [] OTHER -> acc

SizeResolve(node) ==
    Fold(SizeStep, attributes(node, SizeMask),
         [width |-> Auto, height |-> Auto, min_height |-> Auto, min_width |-> Auto,
          padding |-> <<Zero, Zero, Zero, Zero>>, direction |-> SizeDirection(node),
          panic |-> FALSE])

\* (f32, f32, f32, f32) != (f32, f32, f32, f32)
PaddingNe(a, b) == \E i \in 1..4 : ~FEq(a[i], b[i])

SizeChanged(new, self) ==
    \/ ~SizeModeEq(new.width, self.width)
    \/ ~SizeModeEq(new.height, self.height)
    \/ ~SizeModeEq(new.min_height, self.min_height)
    \/ ~SizeModeEq(new.min_width, self.min_width)
    \/ PaddingNe(new.padding, self.padding)
    \/ new.direction # self.direction

\* the slip of leaving the identity out of the stored value
SizeNewIdentityLeft(r, node) ==
    [width |-> r.width, height |-> r.height, min_height |-> r.min_height,
     min_width |-> r.min_width, padding |-> r.padding, direction |-> r.direction,
     id |-> 0]

\* the value stored by `*self = Self { ..., id: node.id().0 }`
SizeNew(r, node) ==
    [width |-> r.width, height |-> r.height, min_height |-> r.min_height,
     min_width |-> r.min_width, padding |-> r.padding, direction |-> r.direction,
     id |-> node.id]

\* `if changed { ctx.lock().unwrap().mark_as_dirty(node.id()); }`
DirtyMarks(changed, node) == IF changed THEN <<node.id>> ELSE <<>>

SizeFinish(self, node, r) ==
    IF r.panic THEN Panicked(self)
    ELSE Result("ok", SizeNew(r, node), SizeChanged(r, self),
                DirtyMarks(SizeChanged(r, self), node))

SizeReduce(self, node) == SizeFinish(self, node, SizeResolve(node))

\* ------------------------------------------------------------ Scroll
ScrollDefault == [scroll_y |-> Zero, scroll_x |-> Zero, id |-> 0]

ScrollMask == {"scroll_y", "scroll_x"}

ScrollStep(acc, attr) ==
    IF attr.name \in {"scroll_y", "scroll_x"}
    THEN SetUnwrap(acc, attr.name, ParseF32(to_string(attr.value)))
    ELSE acc

ScrollResolve(node) ==
    Fold(ScrollStep, attributes(node, ScrollMask),
         [scroll_y |-> Zero, scroll_x |-> Zero, panic |-> FALSE])

ScrollChanged(new, self) ==
    ~FEq(new.scroll_x, self.scroll_x) \/ ~FEq(new.scroll_y, self.scroll_y)

ScrollNew(r, node) == [scroll_y |-> r.scroll_y, scroll_x |-> r.scroll_x, id |-> node.id]

ScrollFinish(self, node, r) ==
    IF r.panic THEN Panicked(self)
    ELSE Result("ok", ScrollNew(r, node), ScrollChanged(r, self),
                DirtyMarks(ScrollChanged(r, self), node))

ScrollReduce(self, node) == ScrollFinish(self, node, ScrollResolve(node))

\* ------------------------------------------------------------ Style
ShadowDefault ==
    [x |-> Zero, y |-> Zero, intensity |-> 0, size |-> Zero, color |-> TRANSPARENT]

StyleDefault ==
    [background |-> TRANSPARENT, relative_layer |-> 0, shadow |-> ShadowDefault,
     radius |-> Zero, image_data |-> None, svg_data |-> None, display |-> "Normal"]

StyleMask ==
    {"background", "layer", "shadow", "radius", "image_data", "svg_data",
     "svg_content", "display"}

\* derive(PartialEq) for ShadowSettings
ShadowEq(a, b) ==
    /\ FEq(a.x, b.x)
    /\ FEq(a.y, b.y)
    /\ a.intensity = b.intensity
    /\ FEq(a.size, b.size)
    /\ a.color = b.color

\* `text.map(|v| v.as_bytes().to_vec())`: a character of the model stands for its byte
TextBytes(text) == IF IsSome(text) THEN Some(text.v) ELSE None

StyleStep(acc, attr) ==
    CASE attr.name = "display" -> [acc EXCEPT !.display = parse_display(to_string(attr.value))]
      [] attr.name = "background" -> SetSome(acc, "background", parse_color(to_string(attr.value)))
      [] attr.name = "layer" -> SetSome(acc, "relative_layer", ParseI16(to_string(attr.value)))
      [] attr.name = "shadow" -> SetSome(acc, "shadow", parse_shadow(to_string(attr.value)))
      [] attr.name = "radius" -> SetSome(acc, "radius", ParseF32(to_string(attr.value)))
      [] attr.name = "image_data" -> [acc EXCEPT !.image_data = as_bytes(attr.value)]
      [] attr.name = "svg_data" -> [acc EXCEPT !.svg_data = as_bytes(attr.value)]
      [] attr.name = "svg_content" -> [acc EXCEPT !.svg_data = TextBytes(as_text(attr.value))]
      [] OTHER -> acc

StyleResolve(node) ==
    Fold(StyleStep, attributes(node, StyleMask),
         [background |-> TRANSPARENT, relative_layer |-> 0, shadow |-> ShadowDefault,
          radius |-> Zero, image_data |-> None, svg_data |-> None, display |-> "Normal",
          panic |-> FALSE])

StyleChanged(new, self) ==
    \/ new.background # self.background
    \/ new.relative_layer # self.relative_layer
    \/ ~ShadowEq(new.shadow, self.shadow)
    \/ ~FEq(new.radius, self.radius)
    \/ new.image_data # self.image_data

StyleFinish(self, r) ==
    Result("ok", Fields(r, StyleDefault), StyleChanged(r, self), <<>>)

StyleReduce(self, node) == StyleFinish(self, StyleResolve(node))

\* ------------------------------------------------------------ CursorSettings
CursorSettingsDefault == [position |-> None, color |-> WHITE, mode |-> "None", id |-> None]

CursorSettingsMask == {"cursor_index", "cursor_color", "cursor_mode", "cursor_id"}

\* the slip of letting "none" clear the position
SetPositionNoneClears(acc, text) ==
    IF text = T_none THEN [acc EXCEPT !.position = None]
    ELSE SetUnwrap(acc, "position", Wrap("some", ParseI32(text)))

\* `if text != "none" { cursor.position = Some(text.parse().unwrap()); }`
SetPosition(acc, text) ==
    IF text = T_none THEN acc ELSE SetUnwrap(acc, "position", Wrap("some", ParseI32(text)))

\* `attr.value.as_text().unwrap()`
CursorIndex(acc, text) == IF IsSome(text) THEN SetPosition(acc, text.v) ELSE Panic(acc)

CursorSettingsStep(acc, attr) ==
    CASE attr.name = "cursor_index" -> CursorIndex(acc, as_text(attr.value))
      [] attr.name = "cursor_color" -> SetSome(acc, "color", parse_color(to_string(attr.value)))
      [] attr.name = "cursor_mode" -> [acc EXCEPT !.mode = parse_cursor(to_string(attr.value))]
      [] attr.name = "cursor_id" -> SetSomeSome(acc, "id", ParseUsize(to_string(attr.value)))
      [] OTHER -> acc

\* the slip of starting every node from the type default
CursorSettingsBaseDefault(parent) == CursorSettingsDefault

\* parent.cloned().unwrap_or_default()
CursorSettingsBase(parent) == IF IsSome(parent) THEN parent.v ELSE CursorSettingsDefault

CursorSettingsResolve(node, parent) ==
    Fold(CursorSettingsStep, attributes(node, CursorSettingsMask),
         CursorSettingsBase(parent) @@ [panic |-> FALSE])

\* `&cursor != self`
CursorSettingsChanged(new, self) == new # self

\* the slip of resolving into *self instead of a local: a panic leaves in *self
\* what the call had assigned by then
CursorSettingsFinishInPlace(self, r) ==
    IF r.panic THEN Result("panic", Fields(r, CursorSettingsDefault), FALSE, <<>>)
    ELSE Result("ok", Fields(r, CursorSettingsDefault),
                CursorSettingsChanged(Fields(r, CursorSettingsDefault), self), <<>>)

CursorSettingsFinish(self, r) ==
    IF r.panic THEN Panicked(self)
    ELSE Result("ok", Fields(r, CursorSettingsDefault),
                CursorSettingsChanged(Fields(r, CursorSettingsDefault), self), <<>>)

CursorSettingsReduce(self, node, parent) ==
    CursorSettingsFinish(self, CursorSettingsResolve(node, parent))

\* ------------------------------------------------------------ NodeState
NodeStateDefault ==
    [cursor_settings |-> CursorSettingsDefault,
     references |-> ReferencesDefault,
     size |-> SizeDefault,
     scroll |-> ScrollDefault,
     style |-> StyleDefault,
     font_style |-> FontStyleDefault]

\* ------------------------------------------------------------ inputs
\* the most attributes a node of the model carries
MaxAttrs == 2

\* node identities are 0..MaxNodeId
MaxNodeId == 1

NodeIds == 0..MaxNodeId

RECURSIVE SeqOf(_, _)
\* the candidates picked by the index set S, in the candidates' order
SeqOf(cands, S) ==
    IF S = {} THEN <<>>
    ELSE LET m == CHOOSE i \in S : \A j \in S : i <= j
         IN  <<cands[m]>> \o SeqOf(cands, S \ {m})

\* the attribute sets a node can carry: at most MaxAttrs candidates, no name twice
Picks(cands) ==
    { X \in SUBSET (1..Len(cands)) :
        /\ Cardinality(X) <= MaxAttrs
        /\ \A i, j \in X : i # j => cands[i].name # cands[j].name }

\* what one diff of the node leaves of the attribute set S: S itself, or S with one
\* attribute added, removed or given another value
Edits(cands, picks, S) ==
    { X \in picks :
        /\ Cardinality(S \ X) <= 1
        /\ Cardinality(X \ S) <= 1
        /\ \A i \in S \ X, j \in X \ S : cands[i].name = cands[j].name }

MkNode(id, tag, text, attrs) == [id |-> id, tag |-> tag, text |-> text, attrs |-> attrs]

\* an element node without attributes yet
Element(id, tag) == MkNode(id, tag, FALSE, <<>>)

\* a text node: no tag, and it never carries attributes
TextNode(id) == MkNode(id, "none", TRUE, <<>>)

SizeCands ==
    <<Attr("width", Text(<<"5", "0", "%">>)),
      Attr("width", Text(<<"6", "0", "%">>)),
      Attr("height", Text(<<"a", "b", "c">>)),
      Attr("min_width", Text(<<"c", "a", "l", "c", "(", "1", "0", "0", "%", " ", "-", " ", "2", "0", ")">>)),
      Attr("padding", Text(<<"1", "0">>)),
      Attr("padding", Text(<<"N", "a", "N">>)),
      Attr("padding", Text(<<"1", "x">>)),
      Attr("direction", Text(<<"h", "o", "r", "i", "z", "o", "n", "t", "a", "l">>)),
      Attr("direction", Text(<<"u", "p">>)),
      Attr("direction", Text(<<"b", "o", "t", "h">>)),
      Attr("color", Text(<<"r", "e", "d">>))>>

ScrollCands ==
    <<Attr("scroll_x", Text(<<"5">>)),
      Attr("scroll_x", Text(<<"N", "a", "N">>)),
      Attr("scroll_x", Text(<<>>)),
      Attr("scroll_y", Text(<<"7">>)),
      Attr("scroll_y", Text(<<"a", "b", "c">>)),
      Attr("width", Text(<<"5", "0", "%">>))>>

FontStyleCands ==
    <<Attr("color", Text(<<"r", "e", "d">>)),
      Attr("color", Text(<<"n", "o", "p", "e">>)),
      Attr("font_family", Text(<<"A", "r", "i", "a", "l">>)),
      Attr("font_size", Text(<<"2", "0">>)),
      Attr("font_size", Text(<<"b", "i", "g">>)),
      Attr("line_height", Text(<<"1", ".", "5">>)),
      Attr("line_height", Text(<<"x">>)),
      Attr("align", Text(<<"c", "e", "n", "t", "e", "r">>)),
      Attr("align", Text(<<"m", "i", "d", "d", "l", "e">>)),
      Attr("max_lines", Text(<<"3">>)),
      Attr("max_lines", Text(<<"-", "1">>)),
      Attr("font_style", Text(<<"b", "o", "l", "d">>))>>

StyleCands ==
    <<Attr("svg_data", Bytes(<<3>>)),
      Attr("svg_content", Text(<<"<", "s", "v", "g", ">">>)),
      Attr("svg_data", Bytes(<<4, 5>>)),
      Attr("background", Text(<<"r", "e", "d">>)),
      Attr("background", Text(<<"r", "g", "b", "(", "1", ",", "2", ")">>)),
      Attr("layer", Text(<<"3">>)),
      Attr("layer", Text(<<"4", "0", "0", "0", "0">>)),
      Attr("shadow", Text(<<"2", " ", "2", " ", "1", "0", "0", " ", "5", " ", "b", "l", "a", "c", "k">>)),
      Attr("shadow", Text(<<"2", " ", "2", " ", "1", "0", "0", " ", "5">>)),
      Attr("radius", Text(<<"4">>)),
      Attr("radius", Text(<<"N", "a", "N">>)),
      Attr("radius", Text(<<"r">>)),
      Attr("image_data", Bytes(<<1, 2>>)),
      Attr("display", Text(<<"c", "e", "n", "t", "e", "r">>))>>

CursorSettingsCands ==
    <<Attr("cursor_index", Text(<<"7">>)),
      Attr("cursor_index", Text(<<"n", "o", "n", "e">>)),
      Attr("cursor_index", Text(<<"x", "1">>)),
      Attr("cursor_color", Text(<<"r", "e", "d">>)),
      Attr("cursor_mode", Text(<<"e", "d", "i", "t", "a", "b", "l", "e">>)),
      Attr("cursor_id", Text(<<"2">>)),
      Attr("cursor_id", Text(<<"-", "2">>))>>

ReferencesCands ==
    <<Attr("reference", AnyVal("NodeRef", "n1")),
      Attr("reference", Text(<<"n">>)),
      Attr("cursor_reference", AnyVal("CursorRef", "c1")),
      Attr("cursor_reference", AnyVal("NodeRef", "n2")),
      Attr("width", Text(<<"5">>))>>

FontStyleParentNodes ==
    <<MkNode(0, "rect", FALSE,
             <<Attr("color", Text(<<"b", "l", "u", "e">>)),
               Attr("font_family", Text(<<"M", "o", "n", "o">>)),
               Attr("font_size", Text(<<"2", "4">>)),
               Attr("line_height", Text(<<"2">>)),
               Attr("align", Text(<<"e", "n", "d">>)),
               Attr("max_lines", Text(<<"2">>)),
               Attr("font_style", Text(<<"i", "t", "a", "l", "i", "c">>))>>)>>

\* a parent's resolved FontStyle: none (the node is the root), or what a root resolves to
FontStyleParents ==
    {None} \cup { Some(FontStyleReduce(FontStyleDefault, FontStyleParentNodes[i], None).new) :
                    i \in 1..Len(FontStyleParentNodes) }

CursorSettingsParentNodes ==
    <<MkNode(0, "rect", FALSE,
             <<Attr("cursor_index", Text(<<"3">>)),
               Attr("cursor_color", Text(<<"b", "l", "u", "e">>)),
               Attr("cursor_mode", Text(<<"e", "d", "i", "t", "a", "b", "l", "e">>)),
               Attr("cursor_id", Text(<<"1">>))>>)>>

CursorSettingsParents ==
    {None} \cup { Some(CursorSettingsReduce(CursorSettingsDefault, CursorSettingsParentNodes[i], None).new) :
                    i \in 1..Len(CursorSettingsParentNodes) }

ReferencesParentNodes ==
    <<MkNode(0, "rect", FALSE, <<Attr("reference", AnyVal("NodeRef", "n0")),
                                 Attr("cursor_reference", AnyVal("CursorRef", "c0"))>>),
      MkNode(0, "rect", FALSE, <<Attr("reference", AnyVal("NodeRef", "n0"))>>)>>

ReferencesParents ==
    {None} \cup { Some(ReferencesReduce(ReferencesDefault, ReferencesParentNodes[i], None).new) :
                    i \in 1..Len(ReferencesParentNodes) }

\* ------------------------------------------------------------ single calls
\* One node's NodeState and the reduce calls the traversal makes on it, each after
\* one diff of the node's attributes.  Each reducer takes only its own field of
\* NodeState by &mut, so a behaviour follows one category; a call that panics
\* ends the traversal.
Cands(cat) ==
    CASE cat = "references" -> ReferencesCands
      [] cat = "font_style" -> FontStyleCands
      [] cat = "size" -> SizeCands
      [] cat = "scroll" -> ScrollCands
      [] cat = "style" -> StyleCands
      [] cat = "cursor_settings" -> CursorSettingsCands

\* every attribute set of each category, worked out once
AllPicks == [cat \in {"references", "font_style", "size", "scroll", "style", "cursor_settings"} |->
                Picks(Cands(cat))]

\* the nodes a behaviour can follow: for Size and Scroll a rect of every identity,
\* for Size also one node of each text-bearing shape
Fresh(cat) ==
    CASE cat = "size" ->
            { Element(i, "rect") : i \in NodeIds }
                \cup { Element(MaxNodeId, t) : t \in {"label", "paragraph", "text"} }
                \cup { TextNode(MaxNodeId) }
      [] cat = "scroll" -> { Element(i, "rect") : i \in NodeIds }
      [] OTHER -> { Element(1, "rect") }

\* before the first call: the node as inserted, its state the type's default
NoCall(cat, node) ==
    [cat |-> cat, pick |-> {}, node |-> node, parent |-> None, before |-> None, after |-> None,
     changed |-> FALSE, marks |-> <<>>, outcome |-> "new", prev |-> None]

Ready(cat) == call.cat = cat /\ call.outcome # "panic"

\* the node after one diff: the attribute set X replaces the one it carried
Diffed(X) ==
    IF call.node.text THEN call.node
    ELSE [call.node EXCEPT !.attrs = SeqOf(Cands(call.cat), X)]

NextPicks ==
    IF call.node.text THEN {{}} ELSE Edits(Cands(call.cat), AllPicks[call.cat], call.pick)

\* the record of a finished call: its inputs, *self before and after, its results,
\* and the attribute set of the call that produced the state it started from
Call(X, self, parent, res) ==
    [cat |-> call.cat, pick |-> X, node |-> Diffed(X), parent |-> parent,
     before |-> Some(self), after |-> Some(res.new),
     changed |-> res.changed, marks |-> res.marks, outcome |-> res.outcome,
     prev |-> IF call.outcome = "new" THEN None ELSE Some(call.pick)]

Idle ==
    /\ pc = "idle" /\ pend = None /\ lock = "free" /\ dirty = {} /\ lpc = "idle" /\ obs = None
    /\ tattrs = <<>> /\ tstate = <<>> /\ todo = <<>> /\ tfailed = FALSE

Rest == UNCHANGED <<pc, pend, lock, dirty, lpc, obs, tattrs, tstate, todo, tfailed>>

\* `*self = ...` and the call's return
Commit(X, self, parent, res) ==
    /\ st' = [st EXCEPT ![call.cat] = res.new]
    /\ call' = Call(X, self, parent, res)

ReduceReferences ==
    /\ Ready("references")
    /\ \E X \in NextPicks, parent \in ReferencesParents :
        Commit(X, st.references, parent, ReferencesReduce(st.references, Diffed(X), parent))
    /\ Rest

ReduceFontStyle ==
    /\ Ready("font_style")
    /\ \E X \in NextPicks, parent \in FontStyleParents :
        Commit(X, st.font_style, parent, FontStyleReduce(st.font_style, Diffed(X), parent))
    /\ Rest

ReduceSize ==
    /\ Ready("size")
    /\ \E X \in NextPicks : Commit(X, st.size, None, SizeReduce(st.size, Diffed(X)))
    /\ Rest

ReduceScroll ==
    /\ Ready("scroll")
    /\ \E X \in NextPicks : Commit(X, st.scroll, None, ScrollReduce(st.scroll, Diffed(X)))
    /\ Rest

ReduceStyle ==
    /\ Ready("style")
    /\ \E X \in NextPicks : Commit(X, st.style, None, StyleReduce(st.style, Diffed(X)))
    /\ Rest

ReduceCursorSettings ==
    /\ Ready("cursor_settings")
    /\ \E X \in NextPicks, parent \in CursorSettingsParents :
        Commit(X, st.cursor_settings, parent,
               CursorSettingsReduce(st.cursor_settings, Diffed(X), parent))
    /\ Rest

Categories == {"references", "font_style", "size", "scroll", "style", "cursor_settings"}

Init ==
    /\ st = NodeStateDefault
    /\ \E cat \in Categories : \E node \in Fresh(cat) : call = NoCall(cat, node)
    /\ Idle

Next ==
    \/ ReduceReferences
    \/ ReduceFontStyle
    \/ ReduceSize
    \/ ReduceScroll
    \/ ReduceStyle
    \/ ReduceCursorSettings

Spec == Init /\ [][Next]_vars

\* ------------------------------------------------------------ properties of single calls
\* the value of the node's attribute of that name, if it carries one
AttrOf(node, name) ==
    LET S == { i \in 1..Len(node.attrs) : node.attrs[i].name = name }
    IN  IF S = {} THEN None ELSE Some(node.attrs[CHOOSE i \in S : TRUE].value)

\* the text of the node's attribute of that name, if it carries one as text
TextOf(node, name) ==
    IF IsSome(AttrOf(node, name)) /\ AttrOf(node, name).v.k = "text"
    THEN Some(AttrOf(node, name).v.v) ELSE None

\* the last call was a reduce of that category and it returned
Completed(cat) == call.cat = cat /\ call.outcome = "ok"

\* the last call was a reduce of that category and it panicked
Failed(cat) == call.cat = cat /\ call.outcome = "panic"

\* some field of fields holds another value in the call's result than before it
Differs(fields) == \E f \in fields : call.after.v[f] # call.before.v[f]

SizeFields == {"width", "height", "min_width", "min_height", "padding", "direction"}

ScrollFields == {"scroll_x", "scroll_y"}

\* the last call reduced the attribute set the call before it had reduced
SameAttributes == IsSome(call.prev) /\ call.prev.v = call.pick

DirtyFlagOf(fields) ==
    /\ call.changed <=> Differs(fields)
    /\ call.marks = (IF call.changed THEN <<call.node.id>> ELSE <<>>)
    /\ SameAttributes => (~call.changed /\ call.marks = <<>>)

\* C1: a completed Size or Scroll call returns changed = true exactly when a
\* non-identity field of the resolved value differs from the stored one, calls
\* mark_as_dirty once with the node's identity exactly when the flag is true, and
\* returns false without a dirty call when the attribute set is the one reduced before.
C1_DirtyFlag ==
    /\ Completed("size") => DirtyFlagOf(SizeFields)
    /\ Completed("scroll") => DirtyFlagOf(ScrollFields)

\* ------------------------------------------------------------ C2
FontStyleFields ==
    {"color", "font_family", "font_size", "line_height", "align", "max_lines", "font_style"}

\* the value a FontStyle attribute's text gives its field, none for a malformed
\* text; font_family, align and font_style give a value for every text
FontStyleGiven(f, text) ==
    CASE f = "color" -> parse_color(text)
      [] f = "font_family" -> Some(text)
      [] f \in {"font_size", "line_height"} -> ParseF32(text)
      [] f = "align" -> Some(parse_text_align(text))
      [] f = "max_lines" -> Wrap("some", ParseUsize(text))
      [] f = "font_style" -> Some(parse_font_style(text))

\* what field f comes from: the attribute, else the parent, else the default
FontStyleExpected(node, parent, f) ==
    IF IsSome(TextOf(node, f)) /\ IsSome(FontStyleGiven(f, TextOf(node, f).v))
    THEN FontStyleGiven(f, TextOf(node, f).v).v
    ELSE IF IsSome(parent) THEN parent.v[f]
    ELSE FontStyleDefault[f]

\* C2: each of the seven fields a FontStyle call resolves is the value its own
\* attribute gives when present and well-formed, else the parent's resolved value,
\* else the type default; the value held before the call plays no part, and a
\* malformed number leaves only its own field at the inherited value.
C2_FontStyleInherits ==
    Completed("font_style") =>
        \A f \in FontStyleFields :
            call.after.v[f] = FontStyleExpected(call.node, call.parent, f)

\* a child of a parent with font_size 24 carries a malformed font_size and a good color
C2_Witness ==
    /\ Completed("font_style")
    /\ IsSome(call.parent)
    /\ TextOf(call.node, "font_size") = Some(<<"b", "i", "g">>)
    /\ TextOf(call.node, "color") = Some(<<"r", "e", "d">>)
    /\ call.after.v.font_size = Fin(24)
    /\ call.after.v.color = RED
    /\ call.before.v.font_size # Fin(24)

\* ------------------------------------------------------------ C3
\* the position a node inherits: the parent's, none at the root
InheritedPosition(parent) == IF IsSome(parent) THEN parent.v.position ELSE None

\* C3: a CursorSettings call resolves the position to the parent's (none at the
\* root) when cursor_index is absent or "none", and to Some(n) when it is the integer n.
C3_CursorIndex ==
    Completed("cursor_settings") =>
        LET text == TextOf(call.node, "cursor_index")
        IN  /\ (~IsSome(text) \/ text = Some(T_none)) =>
                    call.after.v.position = InheritedPosition(call.parent)
            /\ (IsSome(text) /\ IsSome(ParseI32(text.v))) =>
                    call.after.v.position = Some(ParseI32(text.v).v)

\* "none" under a parent whose position is Some(3)
C3_Witness ==
    /\ Completed("cursor_settings")
    /\ TextOf(call.node, "cursor_index") = Some(T_none)
    /\ IsSome(call.parent)
    /\ call.parent.v.position = Some(3)
    /\ call.after.v.position = Some(3)

\* ------------------------------------------------------------ C5
\* the handle the node supplies under that attribute name, if it supplies one
HandleOf(node, name) ==
    IF IsSome(AttrOf(node, name)) /\ AttrOf(node, name).v.k = "any"
    THEN Some(AttrOf(node, name).v.h) ELSE None

\* C5: a References call returns changed = false whatever its inputs; cursor_ref is
\* the node's own cursor_reference when supplied, else the parent's cursor_ref;
\* node_ref is the node's own reference when supplied, else absent.
C5_References ==
    Completed("references") =>
        /\ call.changed = FALSE
        /\ call.after.v.cursor_ref =
               (IF IsSome(HandleOf(call.node, "cursor_reference"))
                THEN HandleOf(call.node, "cursor_reference")
                ELSE IF IsSome(call.parent) THEN call.parent.v.cursor_ref ELSE None)
        /\ call.after.v.node_ref = HandleOf(call.node, "reference")

\* a node that had a node_ref loses it under a parent that has both references
C5_Witness ==
    /\ Completed("references")
    /\ IsSome(call.before.v.node_ref)
    /\ IsSome(call.parent)
    /\ IsSome(call.parent.v.node_ref)
    /\ call.after.v.node_ref = None
    /\ call.after.v.cursor_ref = Some("c0")
    /\ call.after.v # call.before.v
    /\ ~call.changed

\* ------------------------------------------------------------ C6
StyleFlagFields == {"background", "relative_layer", "shadow", "radius", "image_data"}

\* C6: a Style call returns changed = true exactly when background, relative_layer,
\* shadow, radius or image_data differs from the stored value, so a call whose
\* result differs only in svg_data or display returns false; the new svg_data and
\* display are stored all the same.
C6_StyleFlag ==
    Completed("style") =>
        /\ call.changed <=> Differs(StyleFlagFields)
        /\ st.style = call.after.v

\* ------------------------------------------------------------ C7
\* a scroll attribute is present and its text is no number
MalformedScroll(node) ==
    \E f \in ScrollFields : IsSome(TextOf(node, f)) /\ ~IsSome(ParseF32(TextOf(node, f).v))

\* cursor_index is present and its text is neither "none" nor an integer
MalformedCursorIndex(node) ==
    /\ IsSome(TextOf(node, "cursor_index"))
    /\ TextOf(node, "cursor_index").v # T_none
    /\ ~IsSome(ParseI32(TextOf(node, "cursor_index").v))

\* C7: a Size call never hard-fails on an attribute value; the only hard failures
\* of any reduce call are a malformed scroll_x or scroll_y in Scroll and a
\* malformed cursor_index other than "none" in CursorSettings.
C7_OnlyHardFailures ==
    /\ ~Failed("size")
    /\ call.outcome = "panic" =>
           \/ call.cat = "scroll" /\ MalformedScroll(call.node)
           \/ call.cat = "cursor_settings" /\ MalformedCursorIndex(call.node)

\* ------------------------------------------------------------ C8
\* C8: a Scroll call with a present scroll attribute that is no number, and a
\* CursorSettings call with a present cursor_index that is neither "none" nor an
\* integer, end in a hard failure that leaves the stored state as it was, with no
\* value resolved; a Scroll call that completes resolves every absent scroll
\* attribute to 0.
C8_UnguardedParses ==
    /\ (call.cat = "scroll" /\ call.outcome # "new" /\ MalformedScroll(call.node)) =>
           call.outcome = "panic"
    /\ (call.cat = "cursor_settings" /\ call.outcome # "new" /\ MalformedCursorIndex(call.node)) =>
           call.outcome = "panic"
    /\ Completed("scroll") =>
           \A f \in ScrollFields : ~IsSome(AttrOf(call.node, f)) => call.after.v[f] = Zero
    /\ (Failed("scroll") \/ Failed("cursor_settings")) => st[call.cat] = call.before.v

\* a Scroll call on scroll_y = "abc" has panicked, the stored scroll_x still 5
C8_Witness ==
    /\ Failed("scroll")
    /\ TextOf(call.node, "scroll_y") = Some(<<"a", "b", "c">>)
    /\ st.scroll.scroll_x = Fin(5)

\* ------------------------------------------------------------ a tree, reduced top-down
\* The traversal visits a tree top-down and reduces each node's CursorSettings
\* against its parent's resolved CursorSettings.  Nodes are 1..TreeSize, node 1
\* the root; a pass over the whole tree follows every change of an attribute.
TreeSize == 3

TreeNodes == 1..TreeSize

\* a chain 1 - 2 - 3 that branches below node 2 when there are more nodes
TreeParent(n) == (n + 1) \div 2

RECURSIVE Ancestors(_)
Ancestors(n) == IF n = 1 THEN {} ELSE {TreeParent(n)} \cup Ancestors(TreeParent(n))

\* what a node of the tree can carry as cursor_index
TreeCands ==
    <<Attr("cursor_index", Text(<<"7">>)),
      Attr("cursor_index", Text(<<"3">>)),
      Attr("cursor_index", Text(<<"n", "o", "n", "e">>)),
      Attr("cursor_index", Text(<<"x", "1">>))>>

TreePicks == Picks(TreeCands)

\* parents before children
TopDown == [n \in TreeNodes |-> n]

TreeNode(n) == MkNode(n, "rect", FALSE, SeqOf(TreeCands, tattrs[n]))

\* the parent's resolved state the traversal hands to reduce
TreeParentState(n) == IF n = 1 THEN None ELSE Some(tstate[TreeParent(n)])

\* the call on node n has ended: a panic ends the traversal
TreeCommit(n, res) ==
    /\ tstate' = [tstate EXCEPT ![n] = res.new]
    /\ tfailed' = (res.outcome = "panic")
    /\ todo' = IF res.outcome = "panic" THEN todo ELSE Tail(todo)

SingleIdle ==
    /\ st = NodeStateDefault
    /\ call = NoCall("cursor_settings", Element(1, "rect"))
    /\ pc = "idle" /\ pend = None /\ lock = "free" /\ dirty = {} /\ lpc = "idle" /\ obs = None

SingleRest == UNCHANGED <<st, call, pc, pend, lock, dirty, lpc, obs>>

\* the next node of the pass is reduced
TreeReduce ==
    /\ todo # <<>>
    /\ ~tfailed
    /\ TreeCommit(Head(todo),
                  CursorSettingsReduce(tstate[Head(todo)], TreeNode(Head(todo)),
                                       TreeParentState(Head(todo))))
    /\ UNCHANGED tattrs
    /\ SingleRest

\* between two passes one node's attributes change; a pass over the tree follows
TreeEdit ==
    /\ todo = <<>>
    /\ ~tfailed
    /\ \E n \in TreeNodes : \E X \in TreePicks \ {tattrs[n]} :
           tattrs' = [tattrs EXCEPT ![n] = X]
    /\ todo' = TopDown
    /\ UNCHANGED <<tstate, tfailed>>
    /\ SingleRest

InitTree ==
    /\ tattrs = [n \in TreeNodes |-> {}]
    /\ tstate = [n \in TreeNodes |-> CursorSettingsDefault]
    /\ todo = TopDown
    /\ tfailed = FALSE
    /\ SingleIdle

NextTree ==
    \/ TreeReduce
    \/ TreeEdit

SpecTree == InitTree /\ [][NextTree]_vars

\* every node has been reduced in the pass and none has failed
PassDone == todo = <<>> /\ ~tfailed

\* node n carries an integer cursor_index of its own
OwnIndex(n) ==
    /\ IsSome(TextOf(TreeNode(n), "cursor_index"))
    /\ IsSome(ParseI32(TextOf(TreeNode(n), "cursor_index").v))

\* C4: in a tree reduced top-down, a child without an integer cursor_index of its
\* own resolves to its parent's position when that is set, and no descendant of a
\* node whose position is set resolves to no position.
C4_CaretPersists ==
    PassDone =>
        \A n \in TreeNodes \ {1} :
            /\ (IsSome(tstate[TreeParent(n)].position) /\ ~OwnIndex(n)) =>
                    tstate[n].position = tstate[TreeParent(n)].position
            /\ \A a \in Ancestors(n) :
                    IsSome(tstate[a].position) => IsSome(tstate[n].position)

\* the root's 7 has reached the grandchild through a child that says "none"
C4_Witness ==
    /\ PassDone
    /\ TextOf(TreeNode(1), "cursor_index") = Some(<<"7">>)
    /\ TextOf(TreeNode(2), "cursor_index") = Some(T_none)
    /\ tattrs[3] = {}
    /\ tstate[2].position = Some(7)
    /\ tstate[3].position = Some(7)

\* ------------------------------------------------------------ the dirty context and its lock
\* A reduce call runs statement by statement, next to a layout stage that shares
\* the LayoutMemorizer behind the mutex; Size and Scroll are the categories that
\* lock it.  pend is the call in progress:
\* its locals, the statements it has yet to run, whether it holds a MutexGuard,
\* and how often it has locked and what it has marked so far.  lock is the
\* mutex, dirty the memorizer's dirty marks, obs what the layout stage last saw.

\* the slip of storing the new state before telling the dirty context
ReduceStepsStoreFirst(changed) ==
    IF changed THEN <<"store", "lock", "mark_as_dirty", "unlock">> ELSE <<"store">>

\* the slip of keeping the guard beyond the statement
ReduceStepsGuardKept(changed) ==
    IF changed THEN <<"lock", "mark_as_dirty", "store">> ELSE <<"store">>

\* the statements after the loop, in program order: the guard of `ctx.lock()` is a
\* temporary, dropped at the end of its statement
ReduceSteps(changed) ==
    IF changed THEN <<"lock", "mark_as_dirty", "unlock", "store">> ELSE <<"store">>

\* LayoutMemorizer::mark_as_dirty
mark_as_dirty(marks, id) == marks \cup {id}

\* the attributes the node of this part carries
LockNames ==
    {"width", "padding", "scroll_x", "scroll_y", "cursor_index", "cursor_color",
     "reference", "cursor_reference"}

\* Size and Scroll are the categories that tell the dirty context
Notifies == call.cat \in {"size", "scroll"}

\* the statements of the call after its loop
StepsOf(changed) == IF Notifies THEN ReduceSteps(changed) ELSE <<"store">>

LockNextPicks == { X \in NextPicks : \A i \in X : Cands(call.cat)[i].name \in LockNames }

TreeIdle == tattrs = <<>> /\ tstate = <<>> /\ todo = <<>> /\ tfailed = FALSE

TreeRest == UNCHANGED <<tattrs, tstate, todo, tfailed>>

\* the call up to `let changed = ...`: a panic in the loop unwinds out of it,
\* and pend keeps what the call had done by then
BeginCall(X, self, res) ==
    IF res.outcome = "panic"
    THEN /\ pc' = "panic"
         /\ st' = [st EXCEPT ![call.cat] = res.new]
         /\ pend' = Some([pick |-> X, node |-> Diffed(X), self |-> self, new |-> res.new,
                          changed |-> res.changed, steps |-> <<>>,
                          guard |-> FALSE, acquired |-> 0, marked |-> res.marks])
    ELSE /\ pc' = "run"
         /\ st' = st
         /\ pend' = Some([pick |-> X, node |-> Diffed(X), self |-> self, new |-> res.new,
                          changed |-> res.changed, steps |-> StepsOf(res.changed),
                          guard |-> FALSE, acquired |-> 0, marked |-> <<>>])

BeginSize ==
    /\ pc = "idle"
    /\ call.cat = "size"
    /\ \E X \in LockNextPicks : BeginCall(X, st.size, SizeReduce(st.size, Diffed(X)))
    /\ UNCHANGED <<call, lock, dirty, lpc, obs>>
    /\ TreeRest

BeginScroll ==
    /\ pc = "idle"
    /\ call.cat = "scroll"
    /\ \E X \in LockNextPicks : BeginCall(X, st.scroll, ScrollReduce(st.scroll, Diffed(X)))
    /\ UNCHANGED <<call, lock, dirty, lpc, obs>>
    /\ TreeRest

\* CursorSettings and References have no dirty context to tell
BeginCursorSettings ==
    /\ pc = "idle"
    /\ call.cat = "cursor_settings"
    /\ \E X \in LockNextPicks, parent \in CursorSettingsParents :
           BeginCall(X, st.cursor_settings,
                     CursorSettingsReduce(st.cursor_settings, Diffed(X), parent))
    /\ UNCHANGED <<call, lock, dirty, lpc, obs>>
    /\ TreeRest

BeginReferences ==
    /\ pc = "idle"
    /\ call.cat = "references"
    /\ \E X \in LockNextPicks, parent \in ReferencesParents :
           BeginCall(X, st.references, ReferencesReduce(st.references, Diffed(X), parent))
    /\ UNCHANGED <<call, lock, dirty, lpc, obs>>
    /\ TreeRest

\* the call is about to run that statement
At(step) == pc = "run" /\ pend.v.steps # <<>> /\ Head(pend.v.steps) = step

\* the call's record once the statement has run
Advance(p) == [p EXCEPT !.steps = Tail(@)]

\* `ctx.lock().unwrap()`: blocks while the mutex is held
AcquireLock ==
    /\ At("lock")
    /\ lock = "free"
    /\ lock' = "held"
    /\ pend' = Some([Advance(pend.v) EXCEPT !.guard = TRUE, !.acquired = @ + 1])
    /\ UNCHANGED <<st, call, pc, dirty, lpc, obs>>
    /\ TreeRest

\* `.mark_as_dirty(node.id())`
MarkAsDirty ==
    /\ At("mark_as_dirty")
    /\ dirty' = mark_as_dirty(dirty, pend.v.node.id)
    /\ pend' = Some([Advance(pend.v) EXCEPT !.marked = Append(@, pend.v.node.id)])
    /\ UNCHANGED <<st, call, pc, lock, lpc, obs>>
    /\ TreeRest

\* the guard is dropped at the `;`
ReleaseLock ==
    /\ At("unlock")
    /\ lock' = "free"
    /\ pend' = Some([Advance(pend.v) EXCEPT !.guard = FALSE])
    /\ UNCHANGED <<st, call, pc, dirty, lpc, obs>>
    /\ TreeRest

\* `*self = Self { ... }`
Store ==
    /\ At("store")
    /\ st' = [st EXCEPT ![call.cat] = pend.v.new]
    /\ pend' = Some(Advance(pend.v))
    /\ UNCHANGED <<call, pc, lock, dirty, lpc, obs>>
    /\ TreeRest

\* `changed`: the call returns, the node is as this call reduced it
Return ==
    /\ pc = "run"
    /\ pend.v.steps = <<>>
    /\ pc' = "idle"
    /\ pend' = None
    /\ call' = [call EXCEPT !.pick = pend.v.pick, !.node = pend.v.node, !.outcome = "ok"]
    /\ UNCHANGED <<st, lock, dirty, lpc, obs>>
    /\ TreeRest

\* the layout stage takes the mutex,
LayoutAcquire ==
    /\ lpc = "idle"
    /\ lock = "free"
    /\ lock' = "held"
    /\ lpc' = "locked"
    /\ UNCHANGED <<st, call, pc, pend, dirty, obs>>
    /\ TreeRest

\* consults the dirty marks and clears them for the next pass,
LayoutConsult ==
    /\ lpc = "locked"
    /\ obs' = Some(dirty)
    /\ dirty' = {}
    /\ lpc' = "consulted"
    /\ UNCHANGED <<st, call, pc, pend, lock>>
    /\ TreeRest

\* and lets the mutex go
LayoutRelease ==
    /\ lpc = "consulted"
    /\ lock' = "free"
    /\ lpc' = "idle"
    /\ UNCHANGED <<st, call, pc, pend, dirty, obs>>
    /\ TreeRest

InitLock ==
    /\ st = NodeStateDefault
    /\ \/ \E cat \in {"size", "scroll"} : \E i \in NodeIds : call = NoCall(cat, Element(i, "rect"))
       \/ \E cat \in {"cursor_settings", "references"} : call = NoCall(cat, Element(1, "rect"))
    /\ pc = "idle" /\ pend = None /\ lock = "free" /\ dirty = {} /\ lpc = "idle" /\ obs = None
    /\ TreeIdle

NextLock ==
    \/ BeginSize
    \/ BeginScroll
    \/ BeginCursorSettings
    \/ BeginReferences
    \/ AcquireLock
    \/ MarkAsDirty
    \/ ReleaseLock
    \/ Store
    \/ Return
    \/ LayoutAcquire
    \/ LayoutConsult
    \/ LayoutRelease

SpecLock == InitLock /\ [][NextLock]_vars

\* the statements the call in progress has yet to run
Remaining == { pend.v.steps[i] : i \in 1..Len(pend.v.steps) }

ReducerHolds == IsSome(pend) /\ pend.v.guard

LayoutHolds == lpc \in {"locked", "consulted"}

\* C9: in a Size or Scroll call that detects a change, mark_as_dirty runs before
\* the stored state is overwritten: while the store is still to come the stored
\* state is the previous value, the store never comes before the notification,
\* and for as long as the call holds the lock after marking, the node is marked
\* dirty and its stored state is still the old one.
C9_MarkBeforeStore ==
    (pc = "run" /\ pend.v.changed) =>
        /\ "mark_as_dirty" \in Remaining => "store" \in Remaining
        /\ "store" \in Remaining => st[call.cat] = pend.v.self
        /\ ReducerHolds => "store" \in Remaining
        /\ (ReducerHolds /\ "mark_as_dirty" \notin Remaining) => pend.v.node.id \in dirty

\* in the node's first call: the lock is released, the store still to come, and the
\* layout stage holds the lock and has seen the node marked dirty
C9_Witness ==
    /\ At("store")
    /\ pend.v.changed
    /\ call.outcome = "new"
    /\ lpc = "consulted"
    /\ obs = Some({pend.v.node.id})
    /\ st[call.cat] = pend.v.self
    /\ st[call.cat] # pend.v.new

\* the party that holds the lock can take a step without waiting for anything
HolderCanMove ==
    \/ ReducerHolds /\ ENABLED (MarkAsDirty \/ ReleaseLock \/ Store \/ Return)
    \/ LayoutHolds /\ ENABLED (LayoutConsult \/ LayoutRelease)

\* C10: the dirty context is mutated only by a party that holds its lock; a reduce
\* call locks at most once, marks once, and has released the lock when it returns;
\* the reducer and the layout stage are never inside together, the lock is never
\* left held by nobody, and whoever holds it can move on to release it.
C10_LockDiscipline ==
    /\ At("mark_as_dirty") => ReducerHolds
    /\ ~(ReducerHolds /\ LayoutHolds)
    /\ lock = "held" <=> (ReducerHolds \/ LayoutHolds)
    /\ lock = "held" => HolderCanMove
    /\ ReducerHolds => ~At("lock")
    /\ IsSome(pend) => (pend.v.acquired <= 1 /\ Len(pend.v.marked) <= 1)
    /\ (pc = "run" /\ pend.v.steps = <<>>) =>
           /\ ~pend.v.guard
           /\ pend.v.acquired = (IF Notifies /\ pend.v.changed THEN 1 ELSE 0)
           /\ pend.v.marked = (IF Notifies /\ pend.v.changed THEN <<pend.v.node.id>> ELSE <<>>)

\* the reducer waits at `ctx.lock()` while the layout stage is inside
C10_Witness ==
    /\ At("lock")
    /\ lock = "held"
    /\ LayoutHolds
    /\ ~ReducerHolds

\* ------------------------------------------------------------ identity, guarded attributes, svg, padding, direction
\* the stored value with another identity in its id field
WithIdentity(self, i) == [self EXCEPT !.id = i]

\* the same call on a stored value that differs in nothing but its identity
IdentityBlind(i) ==
    CASE call.cat = "size" ->
            /\ SizeReduce(WithIdentity(call.before.v, i), call.node).changed = call.changed
            /\ SizeReduce(WithIdentity(call.before.v, i), call.node).new = call.after.v
      [] call.cat = "scroll" ->
            /\ ScrollReduce(WithIdentity(call.before.v, i), call.node).changed = call.changed
            /\ ScrollReduce(WithIdentity(call.before.v, i), call.node).new = call.after.v

\* C11: after every completed Size or Scroll call the stored id is the identity
\* of the node just reduced, whether or not the call reported a change, and the
\* call returns the same flag whatever identity was stored before it.
C11_Identity ==
    (Completed("size") \/ Completed("scroll")) =>
        /\ st[call.cat].id = call.node.id
        /\ call.after.v.id = call.node.id
        /\ \A i \in 0..(MaxNodeId + 1) : IdentityBlind(i)

\* a call that reports no change, on a node whose identity was not the stored one
C11_Witness ==
    /\ Completed("size")
    /\ ~call.changed
    /\ call.before.v.id # call.node.id
    /\ st.size.id = call.node.id

\* the node without its attribute of that name
Without(node, name) ==
    [node EXCEPT !.attrs = SelectSeq(node.attrs, LAMBDA a : a.name # name)]

\* the attributes whose parse is guarded, by category
Guarded(cat) ==
    CASE cat = "size" -> {"width", "height", "min_width", "min_height"}
      [] cat = "style" -> {"background", "layer", "shadow", "radius"}
      [] OTHER -> {}

\* the parse the reducer applies to the text of that attribute
GuardedParse(name, text) ==
    CASE name \in {"width", "height", "min_width", "min_height"} -> parse_size(text)
      [] name = "background" -> parse_color(text)
      [] name = "layer" -> ParseI16(text)
      [] name = "shadow" -> parse_shadow(text)
      [] name = "radius" -> ParseF32(text)

\* the node carries that attribute and its value does not parse
Malformed(node, name) ==
    /\ IsSome(AttrOf(node, name))
    /\ ~IsSome(GuardedParse(name, to_string(AttrOf(node, name).v)))

\* the call on a newly inserted node that never had that attribute
ReducedWithout(name) ==
    CASE call.cat = "size" -> SizeReduce(SizeDefault, Without(call.node, name))
      [] call.cat = "style" -> StyleReduce(StyleDefault, Without(call.node, name))

\* C12: in the Size and Style reducers a present but malformed guarded attribute
\* (width, height, min_width, min_height; background, layer, shadow, radius) is
\* treated as absent for that pass: the call ends as it does for the node without
\* that attribute and resolves the same value in every field, whatever was stored
\* before the call.
C12_MalformedIsAbsent ==
    (call.cat \in {"size", "style"} /\ call.outcome # "new") =>
        \A name \in Guarded(call.cat) :
            Malformed(call.node, name) =>
                /\ ReducedWithout(name).outcome = call.outcome
                /\ call.outcome = "ok" => ReducedWithout(name).new = call.after.v

\* a malformed background after a well-formed one: the stored red gives way to
\* the default, the layer of the same node is resolved as given
C12_Witness ==
    /\ Completed("style")
    /\ Malformed(call.node, "background")
    /\ TextOf(call.node, "layer") = Some(<<"3">>)
    /\ call.before.v.background = RED
    /\ call.after.v.background = TRANSPARENT
    /\ call.after.v.relative_layer = 3

\* C13: on a node with an svg_content attribute, alone or next to an svg_data
\* attribute visited before or after it, the resolved svg_data is the bytes of
\* the svg_content text.
C13_SvgContentWins ==
    (Completed("style") /\ IsSome(TextOf(call.node, "svg_content"))) =>
        call.after.v.svg_data = Some(TextOf(call.node, "svg_content").v)

RECURSIVE Pow10(_)
Pow10(e) == IF e = 0 THEN 1 ELSE 10 * Pow10(e - 1)

\* s is t / 2: twice s is t, and what is not a finite number stays what it is
IsHalfOf(s, t) ==
    IF t.k = "fin"
    THEN s.k = "fin" /\ 2 * s.n * Pow10(t.e) = t.n * Pow10(s.e)
    ELSE s = t

\* C14: for a numeric padding total t a completed Size call resolves each of the
\* four sides to t / 2, "10" giving 5 on each side, and without a padding
\* attribute all four sides are 0.
C14_Padding ==
    Completed("size") =>
        /\ ~IsSome(AttrOf(call.node, "padding")) =>
                call.after.v.padding = <<Zero, Zero, Zero, Zero>>
        /\ \A i \in 1..4 :
                /\ IsSome(AttrOf(call.node, "padding")) =>
                        IsHalfOf(call.after.v.padding[i],
                                 ParseF32(to_string(AttrOf(call.node, "padding").v)).v)
                /\ TextOf(call.node, "padding") = Some(<<"1", "0">>) =>
                        call.after.v.padding[i] = Fin(5)

\* a total of 10 where there was no padding: 5 on each side
C14_Witness ==
    /\ Completed("size")
    /\ TextOf(call.node, "padding") = Some(<<"1", "0">>)
    /\ call.before.v.padding = <<Zero, Zero, Zero, Zero>>
    /\ call.after.v.padding = <<Fin(5), Fin(5), Fin(5), Fin(5)>>

\* the direction the node's shape gives when it carries no direction attribute
DirectionByShape(node) ==
    IF node.tag \in {"label", "paragraph", "text"} \/ node.text THEN "Both" ELSE "Vertical"

\* C15: a completed Size call resolves direction to Horizontal for the attribute
\* value "horizontal", Both for "both" and Vertical for any other present value,
\* on text-bearing nodes too; without the attribute it is Both for nodes tagged
\* label, paragraph or text and for nodes with text content, Vertical otherwise.
C15_Direction ==
    Completed("size") =>
        call.after.v.direction =
            IF ~IsSome(AttrOf(call.node, "direction")) THEN DirectionByShape(call.node)
            ELSE IF to_string(AttrOf(call.node, "direction").v) = T_horizontal THEN "Horizontal"
            ELSE IF to_string(AttrOf(call.node, "direction").v) = T_both THEN "Both"
            ELSE "Vertical"

\* a paragraph that says "up" is laid out vertically, where it was Both before
C15_Witness ==
    /\ Completed("size")
    /\ call.node.tag = "paragraph"
    /\ TextOf(call.node, "direction") = Some(<<"u", "p">>)
    /\ call.before.v.direction = "Both"
    /\ call.after.v.direction = "Vertical"

\* ------------------------------------------------------------ the parsers on their own
\* One call of a parser by behaviour: the text is drawn at the start, the call
\* record keeps what went in and what came out.  For parse_size the result is
\* then rendered by Display and the rendering parsed again.

\* the words put together with that separator between them
RECURSIVE Join(_, _)
Join(words, sep) ==
    IF words = <<>> THEN <<>>
    ELSE IF Len(words) = 1 THEN words[1]
    ELSE words[1] \o sep \o Join(Tail(words), sep)

\* every sequence of at most n indices into words
WordPicks(words, n) == UNION { [1..k -> 1..Len(words)] : k \in 0..n }

\* the most tokens between the brackets of a calc text
MaxTokens == 3

\* the tokens a calc text is made of
CalcWords ==
    <<<<"1", "0", "0", "%">>, <<"2", "0">>, <<"+">>, <<"-">>, <<"*">>, <<"/">>,
      <<"x">>, <<"1", ".", "5", "0">>>>

\* texts with and without the wrapper, the tokens one or two blanks apart
CalcInputs ==
    [pre : {T_calcOpen, T_calc, <<>>}, toks : WordPicks(CalcWords, MaxTokens),
     sep : {<<" ">>, <<" ", " ">>}, suf : {<<")">>, <<>>}]

CalcText(c) ==
    c.pre \o Join([i \in 1..Len(c.toks) |-> CalcWords[c.toks[i]]], c.sep) \o c.suf
\* the most tokens of a shadow text
MaxShadowTokens == 6

\* a token that parses in its place and one that does not: x, y and size are
\* f32, intensity is u8, the colour and whatever follows it are colour names
ShadowWord(place, good) ==
    CASE place \in {1, 2} -> IF good THEN <<"2">> ELSE <<"x">>
      [] place = 3 -> IF good THEN <<"1", "0", "0">> ELSE <<"3", "0", "0">>
      [] place = 4 -> IF good THEN <<"5">> ELSE <<"5", "p", "x">>
      [] OTHER -> IF good THEN <<"b", "l", "a", "c", "k">> ELSE <<"n", "o", "p", "e">>

ShadowInputs == UNION { [1..k -> BOOLEAN] : k \in 0..MaxShadowTokens }

ShadowText(c) == Join([i \in 1..Len(c) |-> ShadowWord(i, c[i])], <<" ">>)

\* the most components of an rgb text
MaxComponents == 4

ColorWords ==
    <<<<"1", "0">>, <<" ", "2", "0">>, <<" ", "3", "0">>, <<"2", "5", "6">>, <<"x">>>>

ColorNames ==
    {<<"r", "e", "d">>, <<"g", "r", "e", "e", "n">>, <<"b", "l", "u", "e">>,
     <<"y", "e", "l", "l", "o", "w">>, <<"b", "l", "a", "c", "k">>, <<"g", "r", "a", "y">>,
     <<"w", "h", "i", "t", "e">>}

\* the names, names in another case, words that are no colour, and components
\* with and without the rgb( ) around them
ColorInputs ==
    [kind : {"word"},
     word : ColorNames \cup {<<"R", "e", "d">>, <<"G", "R", "A", "Y">>, <<>>,
                             <<"n", "o", "t", "-", "a", "-", "c", "o", "l", "o", "r">>}]
    \cup [kind : {"rgb"}, pre : {T_rgb, <<>>}, comps : WordPicks(ColorWords, MaxComponents),
          suf : {<<")">>, <<>>}]

ColorText(c) ==
    IF c.kind = "word" THEN c.word
    ELSE c.pre \o Join([i \in 1..Len(c.comps) |-> ColorWords[c.comps[i]]], <<",">>) \o c.suf

RECURSIVE DigitsOf(_)
\* the decimal digits of a natural number
DigitsOf(n) == IF n < 10 THEN <<Digits[n + 1]>> ELSE Append(DigitsOf(n \div 10), Digits[(n % 10) + 1])

RECURSIVE ZeroPad(_, _)
\* the digits with zeros in front up to that length
ZeroPad(ds, len) == IF Len(ds) >= len THEN ds ELSE ZeroPad(<<"0">> \o ds, len)

\* the digits of n / 10^e around the fraction point
Decimal(ds, e) ==
    IF e = 0 THEN ds ELSE Take(ds, Len(ds) - e) \o <<".">> \o Drop(ds, Len(ds) - e)

\* `{}` of an f32: NaN, inf, -inf, or the shortest decimal that reads back
FormatF32(x) ==
    CASE x.k = "nan" -> <<"N", "a", "N">>
      [] x.k = "inf" -> IF x.neg THEN <<"-", "i", "n", "f">> ELSE <<"i", "n", "f">>
      [] x.k = "fin" /\ x.n < 0 -> <<"-">> \o Decimal(ZeroPad(DigitsOf(0 - x.n), x.e + 1), x.e)
      [] OTHER -> Decimal(ZeroPad(DigitsOf(x.n), x.e + 1), x.e)

\* the slip of rendering a percentage as a bare number
fmt_CalcTypeBare(c) ==
    CASE c.k = "Sub" -> <<"-">>
      [] c.k = "Mul" -> <<"*">>
      [] c.k = "Div" -> <<"/">>
      [] c.k = "Add" -> <<"+">>
      [] OTHER -> FormatF32(c.v)

\* impl Display for CalcType
fmt_CalcType(c) ==
    CASE c.k = "Sub" -> <<"-">>
      [] c.k = "Mul" -> <<"*">>
      [] c.k = "Div" -> <<"/">>
      [] c.k = "Add" -> <<"+">>
      [] c.k = "Percentage" -> FormatF32(c.v) \o <<"%">>
      [] c.k = "Manual" -> FormatF32(c.v)

\* impl Display for SizeMode
fmt_SizeMode(m) ==
    CASE m.k = "Auto" -> T_auto
      [] m.k = "Manual" -> FormatF32(m.v)
      [] m.k = "Calculation" ->
            T_calcOpen \o Join([i \in 1..Len(m.v) |-> fmt_CalcType(m.v[i])], <<" ">>) \o <<")">>
      [] m.k = "Percentage" -> FormatF32(m.v) \o <<"%">>

\* size texts that are no calc text
SizeWords ==
    {T_auto, T_stretch, <<"N", "a", "N">>, <<"-", "i", "n", "f">>, <<"0", "5", "0", "%">>,
     <<"N", "a", "N", "%">>, <<"-", "1", ".", "5">>, <<"0", ".", "0", "5">>, <<"%">>,
     <<"a", "b", "c">>, <<"A", "u", "t", "o">>}

SizeInputs == { CalcText(c) : c \in CalcInputs } \cup SizeWords

\* what is known of a parser call before it is made
ParserCall(fn, arg, text) ==
    [fn |-> fn, arg |-> arg, text |-> text, done |-> FALSE, out |-> None,
     shown |-> None, again |-> None]

\* the call is still to be made
AtParser(fn) == call.fn = fn /\ ~call.done

ParserRest ==
    UNCHANGED <<st, pc, pend, lock, dirty, lpc, obs, tattrs, tstate, todo, tfailed>>

\* the call returns
Parsed(out) == call' = [call EXCEPT !.done = TRUE, !.out = out]

ParseCalc == AtParser("parse_calc") /\ Parsed(parse_calc(call.text)) /\ ParserRest

ParseShadow == AtParser("parse_shadow") /\ Parsed(parse_shadow(call.text)) /\ ParserRest

ParseColor == AtParser("parse_color") /\ Parsed(parse_color(call.text)) /\ ParserRest

ParseSize == AtParser("parse_size") /\ Parsed(parse_size(call.text)) /\ ParserRest

\* the SizeMode that came out is rendered: `to_string()`
ShowSize ==
    /\ call.fn = "parse_size"
    /\ call.done
    /\ IsSome(call.out)
    /\ ~IsSome(call.shown)
    /\ call' = [call EXCEPT !.shown = Some(fmt_SizeMode(call.out.v))]
    /\ ParserRest

\* and the rendering is parsed
ParseShown ==
    /\ call.fn = "parse_size"
    /\ IsSome(call.shown)
    /\ ~IsSome(call.again)
    /\ call' = [call EXCEPT !.again = Some(parse_size(call.shown.v))]
    /\ ParserRest

InitParse ==
    /\ st = NodeStateDefault
    /\ Idle
    /\ \/ \E c \in CalcInputs : call = ParserCall("parse_calc", c, CalcText(c))
       \/ \E c \in ShadowInputs : call = ParserCall("parse_shadow", c, ShadowText(c))
       \/ \E c \in ColorInputs : call = ParserCall("parse_color", c, ColorText(c))
       \/ \E s \in SizeInputs : call = ParserCall("parse_size", s, s)

NextParse ==
    \/ ParseCalc
    \/ ParseShadow
    \/ ParseColor
    \/ ParseSize
    \/ ShowSize
    \/ ParseShown

SpecParse == InitParse /\ [][NextParse]_vars

\* ------------------------------------------------------------ properties of the parsers
\* the parser has returned
Returned(fn) == call.fn = fn /\ call.done

\* what each of CalcWords stands for, none for the word that is no token
CalcMeaning ==
    <<Some(Percentage(Fin(100))), Some(Manual(Fin(20))), Some(Op("Add")), Some(Op("Sub")),
      Some(Op("Mul")), Some(Op("Div")), None, Some(Manual(Norm(15, 1)))>>

\* C16: parse_calc returns a sequence only for a text wrapped in calc( and ); it
\* returns none when the prefix or the suffix is missing; between them it splits
\* on whitespace and maps every token, in order, to Add, Sub, Mul, Div,
\* Percentage(n) or Manual(n), and one token that is none of these makes the
\* whole parse none; "calc(100% - 20)" yields [Percentage(100), Sub, Manual(20)].
C16_ParseCalc ==
    Returned("parse_calc") =>
        /\ call.out =
             IF /\ call.arg.pre = T_calcOpen
                /\ call.arg.suf = <<")">>
                /\ \A i \in 1..Len(call.arg.toks) : IsSome(CalcMeaning[call.arg.toks[i]])
             THEN Some([i \in 1..Len(call.arg.toks) |-> CalcMeaning[call.arg.toks[i]].v])
             ELSE None
        /\ call.text = <<"c", "a", "l", "c", "(", "1", "0", "0", "%", " ", "-", " ", "2", "0", ")">> =>
                call.out = Some(<<Percentage(Fin(100)), Op("Sub"), Manual(Fin(20))>>)

\* the example of the claim has been parsed
C16_Witness ==
    /\ Returned("parse_calc")
    /\ call.text = <<"c", "a", "l", "c", "(", "1", "0", "0", "%", " ", "-", " ", "2", "0", ")">>
    /\ call.out = Some(<<Percentage(Fin(100)), Op("Sub"), Manual(Fin(20))>>)

\* C17: parse_shadow returns a ShadowSettings only for exactly five tokens x, y,
\* intensity, size, color that each parse, in that order, and none when a token is
\* missing or fails its parse and for any other number of tokens.
C17_ParseShadow ==
    Returned("parse_shadow") =>
        call.out =
            IF Len(call.arg) = 5 /\ \A i \in 1..5 : call.arg[i]
            THEN Some([x |-> Fin(2), y |-> Fin(2), intensity |-> 100, size |-> Fin(5),
                       color |-> BLACK])
            ELSE None

\* the value of each of ColorWords as a component, none where it is no u8
ColorMeaning == <<Some(10), Some(20), Some(30), None, None>>

\* the text is rgb(R, G, B) with three components that are numbers
LiteralRgb(c) ==
    /\ c.kind = "rgb"
    /\ c.pre = T_rgb
    /\ c.suf = <<")">>
    /\ Len(c.comps) = 3
    /\ \A i \in 1..3 : c.comps[i] \in {1, 2, 3, 4}

\* C18: parse_color returns a color only for one of the seven names, in that
\* case, or for a text of the form rgb(R, G, B) with three numeric components,
\* and none for every other text, "not-a-color" and fewer than three components
\* included.
C18_ParseColor ==
    (Returned("parse_color") /\ IsSome(call.out)) =>
            \/ call.arg.kind = "word" /\ call.arg.word \in ColorNames
            \/ LiteralRgb(call.arg)

\* the text was accepted, rendered, and the rendering parsed
RoundTrip == call.fn = "parse_size" /\ IsSome(call.again)

\* no NaN in the SizeMode
NoNaN(m) ==
    CASE m.k \in {"Percentage", "Manual"} -> m.v.k # "nan"
      [] m.k = "Calculation" ->
            \A i \in 1..Len(m.v) : m.v[i].k \in {"Percentage", "Manual"} => m.v[i].v.k # "nan"
      [] OTHER -> TRUE

ProtoCands ==
    <<Attr("cursor_reference", AnyVal("CursorRef", "c1")),
      Attr("cursor_reference", AnyVal("CursorRef", "c2")),
      Attr("reference", AnyVal("NodeRef", "n1"))>>

ProtoPicks == Picks(ProtoCands)

\* what a node of the tree can carry as font attributes
ProtoFontStyleCands ==
    <<Attr("font_size", Text(<<"2", "0">>)),
      Attr("font_size", Text(<<"N", "a", "N">>)),
      Attr("color", Text(<<"r", "e", "d">>))>>

\* and as cursor attributes
ProtoCursorSettingsCands ==
    <<Attr("cursor_index", Text(<<"7">>)),
      Attr("cursor_index", Text(<<"n", "o", "n", "e">>)),
      Attr("cursor_color", Text(<<"r", "e", "d">>))>>

\* the categories that depend on the parent's resolved state
ProtoCategories == {"references", "font_style", "cursor_settings"}

ProtoCandsOf(cat) ==
    CASE cat = "references" -> ProtoCands
      [] cat = "font_style" -> ProtoFontStyleCands
      [] cat = "cursor_settings" -> ProtoCursorSettingsCands

\* every attribute set of each category, worked out once
ProtoPicksOf ==
    [cat \in ProtoCategories |->
        IF cat = "references" THEN ProtoPicks ELSE Picks(ProtoCandsOf(cat))]

ProtoNode(n) == MkNode(n, "rect", FALSE, SeqOf(ProtoCandsOf(call.cat), tattrs[n]))

Children(n) == { m \in TreeNodes \ {1} : TreeParent(m) = n }

RECURSIVE InOrder(_)
\* the nodes of S, parents before children
InOrder(S) ==
    IF S = {} THEN <<>>
    ELSE LET m == CHOOSE i \in S : \A j \in S : i <= j
         IN  <<m>> \o InOrder(S \ {m})

\* the nodes still to reduce once n has been: its children join them when n's
\* reduce returned true
Rescheduled(rest, n, changed) ==
    InOrder({ rest[i] : i \in 1..Len(rest) } \cup (IF changed THEN Children(n) ELSE {}))

\* the call on node n has ended
ProtoCommit(n, res) ==
    /\ tstate' = [tstate EXCEPT ![n] = res.new]
    /\ tfailed' = (res.outcome = "panic")
    /\ todo' = IF res.outcome = "panic" THEN todo ELSE Rescheduled(Tail(todo), n, res.changed)

\* the traversal follows one category by behaviour
ProtoIdle ==
    /\ st = NodeStateDefault
    /\ \E cat \in ProtoCategories : call = NoCall(cat, Element(1, "rect"))
    /\ pc = "idle" /\ pend = None /\ lock = "free" /\ dirty = {} /\ lpc = "idle" /\ obs = None

\* the next node of the pass is reduced against its parent's resolved References
ProtoReduceReferences ==
    /\ call.cat = "references"
    /\ todo # <<>>
    /\ ~tfailed
    /\ ProtoCommit(Head(todo),
                   ReferencesReduce(tstate[Head(todo)], ProtoNode(Head(todo)),
                                    TreeParentState(Head(todo))))
    /\ UNCHANGED tattrs
    /\ SingleRest

\* the next node of the pass is reduced against its parent's resolved FontStyle
ProtoReduceFontStyle ==
    /\ call.cat = "font_style"
    /\ todo # <<>>
    /\ ~tfailed
    /\ ProtoCommit(Head(todo),
                   FontStyleReduce(tstate[Head(todo)], ProtoNode(Head(todo)),
                                   TreeParentState(Head(todo))))
    /\ UNCHANGED tattrs
    /\ SingleRest

\* the next node of the pass is reduced against its parent's resolved CursorSettings
ProtoReduceCursorSettings ==
    /\ call.cat = "cursor_settings"
    /\ todo # <<>>
    /\ ~tfailed
    /\ ProtoCommit(Head(todo),
                   CursorSettingsReduce(tstate[Head(todo)], ProtoNode(Head(todo)),
                                        TreeParentState(Head(todo))))
    /\ UNCHANGED tattrs
    /\ SingleRest

\* the type default of the category the traversal follows
ProtoDefault ==
    CASE call.cat = "references" -> ReferencesDefault
      [] call.cat = "font_style" -> FontStyleDefault
      [] call.cat = "cursor_settings" -> CursorSettingsDefault

\* between two passes the attributes of one node change: the node is to be reduced
ProtoEdit ==
    /\ todo = <<>>
    /\ ~tfailed
    /\ \E n \in TreeNodes : \E X \in ProtoPicksOf[call.cat] \ {tattrs[n]} :
           /\ tattrs' = [tattrs EXCEPT ![n] = X]
           /\ todo' = <<n>>
    /\ UNCHANGED <<tstate, tfailed>>
    /\ SingleRest

\* every node has just been inserted, without attributes
InitProto ==
    /\ ProtoIdle
    /\ tattrs = [n \in TreeNodes |-> {}]
    /\ tstate = [n \in TreeNodes |-> ProtoDefault]
    /\ todo = TopDown
    /\ tfailed = FALSE

NextProto ==
    \/ ProtoReduceReferences
    \/ ProtoReduceFontStyle
    \/ ProtoReduceCursorSettings
    \/ ProtoEdit

SpecProto == InitProto /\ [][NextProto]_vars

\* the CursorRef handle node n supplies itself
OwnCursorRef(n) ==
    IF /\ IsSome(AttrOf(ProtoNode(n), "cursor_reference"))
       /\ AttrOf(ProtoNode(n), "cursor_reference").v.k = "any"
    THEN Some(AttrOf(ProtoNode(n), "cursor_reference").v.h)
    ELSE None

\* C20: under the traversal driven by the changed flag, after every completed
\* pass each node's resolved cursor_ref is its own cursor_reference when it
\* supplies one, and otherwise its parent's currently resolved cursor_ref, none
\* for the root: no node keeps a reference of an earlier pass.
C20_NoStaleCursorRef ==
    (PassDone /\ call.cat = "references") =>
        \A n \in TreeNodes :
            tstate[n].cursor_ref =
                IF IsSome(OwnCursorRef(n)) THEN OwnCursorRef(n)
                ELSE IF n = 1 THEN None
                ELSE tstate[TreeParent(n)].cursor_ref

\* what node n resolves to when its own attributes are layered over its parent's
\* resolved value as it is now
Layered(n) ==
    CASE call.cat = "font_style" ->
            FontStyleReduce(FontStyleDefault, ProtoNode(n), TreeParentState(n)).new
      [] call.cat = "cursor_settings" ->
            CursorSettingsReduce(CursorSettingsDefault, ProtoNode(n), TreeParentState(n)).new

\* C21: under the traversal driven by the changed flag, after every completed
\* pass each node's resolved FontStyle and CursorSettings is what its current own
\* attributes give when layered over its parent's currently resolved value, the
\* type default at the root: no subtree keeps what it inherited from a parent
\* value that has changed since.
C21_NoStaleInheritance ==
    (PassDone /\ call.cat \in {"font_style", "cursor_settings"}) =>
        \A n \in TreeNodes : tstate[n] = Layered(n)

\* the root's font size, given after the tree was first reduced, has reached the
\* last node, which carries no attribute and was not edited
C21_Witness ==
    /\ PassDone
    /\ call.cat = "font_style"
    /\ TextOf(ProtoNode(1), "font_size") = Some(<<"2", "0">>)
    /\ \A n \in TreeNodes \ {1} : tattrs[n] = {}
    /\ \A n \in TreeNodes : tstate[n].font_size = Fin(20)

\* ------------------------------------------------------------ failures
\* a reduce call has panicked on an attribute value
HardFailed == pc = "panic"

\* C22: when a reduce call of any category fails on an attribute value, it fails
\* before any of its effects: the stored state of the category is what it was
\* before the call, the call has not called mark_as_dirty, it has never taken
\* the lock and does not hold it, so the lock is held by the layout stage or by
\* nobody and the layout stage can still take it; after a failing first call the
\* node is not among the dirty marks nor among those the layout stage has seen.
C22_FailureBeforeEffects ==
    HardFailed =>
        /\ st[call.cat] = pend.v.self
        /\ pend.v.marked = <<>>
        /\ pend.v.acquired = 0
        /\ ~ReducerHolds
        /\ lock = "held" => LayoutHolds
        /\ (lock = "free" /\ lpc = "idle") => ENABLED LayoutAcquire
        /\ call.outcome = "new" =>
                /\ pend.v.node.id \notin dirty
                /\ IsSome(obs) => pend.v.node.id \notin obs.v

\* a padding that is no number fails the call after one that stored a padding of
\* 10, while the layout stage is inside the lock
C22_Witness ==
    /\ HardFailed
    /\ call.cat = "size"
    /\ call.outcome = "ok"
    /\ TextOf(pend.v.node, "padding") = Some(<<"1", "x">>)
    /\ st.size.padding = <<Fin(5), Fin(5), Fin(5), Fin(5)>>
    /\ LayoutHolds

====
